---- MODULE Spec2Model ----
(***************************************************************************)
(* Model of the server listing endpoint of djchat:                         *)
(*   src/src/server/views.py       ServerListViewSet                       *)
(*   src/src/server/pagination.py  ServerListPagination                    *)
(*   src/src/server/admin.py       the admin site, the only writer         *)
(*                                                                         *)
(* Strings are sequences of one-character strings, so that int() is        *)
(* computed from the characters.  A queryset is lazy: it is a description  *)
(* of the query (the filters, the annotation and the slice applied so      *)
(* far) and is evaluated against the database only by exists() and by      *)
(* whoever iterates it.                                                    *)
(***************************************************************************)
EXTENDS Integers, Sequences, FiniteSets

VARIABLES
    db,         \* the Server table: a sequence of rows, in table order
    writes,     \* number of writes made through the admin site
    queryset,   \* ServerListViewSet.queryset, the class attribute
    pc,         \* position of the request being handled
    request,    \* request.query_params of the request being handled
    user,       \* request.user of the request being handled
    qs,         \* the local variable queryset of get_filtered_queryset
    trace,      \* the calls made so far while handling the request
    outcome,    \* how get_filtered_queryset ended
    response,   \* how list ended
    served      \* whether a request has been answered before

vars ==
    <<db, writes, queryset, pc, request, user, qs, trace, outcome, response,
      served>>

\* ------------------------------------------------------------------ bounds

\* Writes through the admin site made on top of the initial table.
MaxWrites == 1

\* ----------------------------------------------------------------- strings

S_empty == <<>>
S_true == <<"t", "r", "u", "e">>
S_True == <<"T", "r", "u", "e">>
S_one == <<"1">>
S_abc == <<"a", "b", "c">>
S_minus_one == <<"-", "1">>
S_zero == <<"0">>
S_five == <<"5">>
S_99 == <<"9", "9">>
S_X == <<"X">>
S_x == <<"x">>
S_Y == <<"Y">>

IsDigit(c) == c \in {"0", "1", "2", "3", "4", "5", "6", "7", "8", "9"}

DigitVal(c) ==
    CASE c = "0" -> 0 [] c = "1" -> 1 [] c = "2" -> 2 [] c = "3" -> 3
      [] c = "4" -> 4 [] c = "5" -> 5 [] c = "6" -> 6 [] c = "7" -> 7
      [] c = "8" -> 8 [] c = "9" -> 9

RECURSIVE DigitsValue(_)
DigitsValue(s) ==
    IF s = <<>> THEN 0
    ELSE DigitsValue(SubSeq(s, 1, Len(s) - 1)) * 10 + DigitVal(s[Len(s)])

RECURSIVE LStrip(_)
LStrip(s) == IF s # <<>> /\ s[1] = " " THEN LStrip(Tail(s)) ELSE s

RECURSIVE RStrip(_)
RStrip(s) ==
    IF s # <<>> /\ s[Len(s)] = " " THEN RStrip(SubSeq(s, 1, Len(s) - 1)) ELSE s

\* int() that reads a string without digits as 0 instead of raising.
int_lenient(s) ==
    LET t == RStrip(LStrip(s))
        signed == t # <<>> /\ t[1] \in {"+", "-"}
        body == IF signed THEN Tail(t) ELSE t
        ok == body # <<>> /\ \A i \in 1..Len(body) : IsDigit(body[i])
        magnitude == IF ok THEN DigitsValue(body) ELSE 0
    IN  [ok |-> TRUE,
         value |-> IF signed /\ t[1] = "-" THEN 0 - magnitude ELSE magnitude]

\* Python's int(str): surrounding blanks, an optional sign, then digits.
\* ok = FALSE stands for ValueError.
int(s) ==
    LET t == RStrip(LStrip(s))
        signed == t # <<>> /\ t[1] \in {"+", "-"}
        body == IF signed THEN Tail(t) ELSE t
        ok == body # <<>> /\ \A i \in 1..Len(body) : IsDigit(body[i])
        magnitude == IF ok THEN DigitsValue(body) ELSE 0
    IN  [ok |-> ok,
         value |-> IF signed /\ t[1] = "-" THEN 0 - magnitude ELSE magnitude]

\* ---------------------------------------------------------------- the data

Users == {1, 2}
AnonymousUser == [is_authenticated |-> FALSE, id |-> 0]
AuthenticatedUser(u) == [is_authenticated |-> TRUE, id |-> u]
Callers == {AnonymousUser} \cup {AuthenticatedUser(u) : u \in Users}

CategoryNames == {S_X, S_Y}

InitialServers ==
    << [id |-> 1, category |-> S_Y, member |-> {2}],
       [id |-> 2, category |-> S_X, member |-> {1, 2}],
       [id |-> 3, category |-> S_X, member |-> {}] >>

\* query_params.get(name): given = FALSE stands for None.
Absent == [given |-> FALSE, raw |-> S_empty]
Given(s) == [given |-> TRUE, raw |-> s]
Params(values) == {Absent} \cup {Given(s) : s \in values}

Requests ==
    [category : Params({S_X, S_x}),
     qty : Params({S_abc, S_minus_one, S_zero, S_one, S_five}),
     by_user : Params({S_empty, S_true, S_True, S_one}),
     by_serverid : Params({S_empty, S_abc, S_one, S_99}),
     with_num_members : Params({S_empty, S_true, S_True, S_one})]

\* Python truthiness of a value that is None or a string.
Truthy(p) == p.given /\ p.raw # S_empty

\* --------------------------------------------------------------- querysets

\* Server.objects.all(): no filter, no annotation, no slice.
Server_objects_all ==
    [category__name |-> {}, member |-> {}, annotated |-> FALSE,
     id |-> {}, stop |-> {}]

filter_category__name(q, name) ==
    [q EXCEPT !.category__name = @ \cup {name}]

filter_member(q, uid) == [q EXCEPT !.member = @ \cup {uid}]

annotate_num_members(q) == [q EXCEPT !.annotated = TRUE]

filter_id(q, n) == [q EXCEPT !.id = @ \cup {n}]

slice(q, k) == [q EXCEPT !.stop = {k}]

\* The rows of the member join of server s that the WHERE clause keeps: the
\* annotation reuses the join of an earlier filter(member=...).
JoinedMembers(q, s) == {u \in s.member : q.member \subseteq {u}}

Matches(q, s) ==
    /\ q.category__name \subseteq {s.category}
    /\ q.id \subseteq {s.id}
    /\ q.member = {} \/ JoinedMembers(q, s) # {}

Instance(q, s) ==
    IF q.annotated
    THEN [id |-> s.id, category |-> s.category,
          num_members |-> Cardinality(JoinedMembers(q, s))]
    ELSE [id |-> s.id, category |-> s.category]

Take(seq, k) == SubSeq(seq, 1, IF k < Len(seq) THEN k ELSE Len(seq))

\* Evaluation that cuts the table before it filters it.
Rows_slice_first(q, table) ==
    LET cut == IF q.stop = {} THEN table
               ELSE Take(table, CHOOSE k \in q.stop : TRUE)
        kept == SelectSeq(cut, LAMBDA s : Matches(q, s))
    IN  [i \in 1..Len(kept) |-> Instance(q, kept[i])]

\* The records a queryset yields when it is evaluated against the table.
Rows(q, table) ==
    LET kept == SelectSeq(table, LAMBDA s : Matches(q, s))
        all == [i \in 1..Len(kept) |-> Instance(q, kept[i])]
    IN  IF q.stop = {} THEN all ELSE Take(all, CHOOSE k \in q.stop : TRUE)

exists(q, table) == Rows(q, table) # <<>>

\* ------------------------------------------------------------------ errors

Pending == [kind |-> "pending", detail |-> <<>>]
Returned == [kind |-> "QuerySet", detail |-> <<>>]
AuthenticationFailed == [kind |-> "AuthenticationFailed", detail |-> <<>>]
ValidationError(detail) == [kind |-> "ValidationError", detail |-> detail]
AttributeError == [kind |-> "AttributeError", detail |-> <<"paginate_queryset">>]

\* The not-found message without the id.
ServerNotFound_no_id(by_serverid) == ValidationError(<<"Server not found">>)

ServerNotFound(by_serverid) ==
    ValidationError(<<"Server with id-">> \o by_serverid \o <<" not found">>)
ServerIdNotInteger == ValidationError(<<"Server id must be an integer">>)
QtyNotInteger == ValidationError(<<"qty must be an integer">>)

\* ------------------------------------------------------- request parameters

\* by_user compared without regard to case.
by_user_any_case(r) == r.by_user.given /\ r.by_user.raw \in {S_true, S_True}

by_user(r) == r.by_user.given /\ r.by_user.raw = S_true
with_num_members(r) == r.with_num_members.given /\ r.with_num_members.raw = S_true

\* ----------------------------------------------------------------- actions

\* A request without query parameters.
NoParams ==
    [category |-> Absent, qty |-> Absent, by_user |-> Absent,
     by_serverid |-> Absent, with_num_members |-> Absent]

\* No request is being handled: the request-scoped values do not exist.
NoRequest ==
    /\ request = NoParams
    /\ user = AnonymousUser
    /\ qs = Server_objects_all
    /\ trace = <<>>
    /\ outcome = Pending
    /\ response = Pending

Init ==
    /\ db = InitialServers
    /\ writes = 0
    /\ queryset = Server_objects_all
    /\ pc = "idle"
    /\ served = FALSE
    /\ NoRequest

\* An exception leaves get_filtered_queryset and list.
Raise(e) ==
    /\ outcome' = e
    /\ response' = e
    /\ pc' = "responded"

\* list is called; get_filtered_queryset starts from the class attribute.
list ==
    /\ pc = "idle"
    /\ \E r \in Requests, u \in Callers :
         /\ request' = r
         /\ user' = u
    /\ qs' = queryset
    /\ trace' = <<>>
    /\ outcome' = Pending
    /\ response' = Pending
    /\ pc' = "category"
    /\ UNCHANGED <<db, writes, queryset, served>>

\* The category filter applied to the class attribute as well.
FilterCategory_in_place ==
    /\ pc = "category"
    /\ IF Truthy(request.category)
       THEN /\ qs' = filter_category__name(qs, request.category.raw)
            /\ queryset' = filter_category__name(qs, request.category.raw)
            /\ trace' = Append(trace, "filter_category")
       ELSE UNCHANGED <<qs, trace, queryset>>
    /\ pc' = "by_user"
    /\ UNCHANGED <<db, writes, request, user, outcome, response, served>>

FilterCategory ==
    /\ pc = "category"
    /\ IF Truthy(request.category)
       THEN /\ qs' = filter_category__name(qs, request.category.raw)
            /\ trace' = Append(trace, "filter_category")
       ELSE UNCHANGED <<qs, trace>>
    /\ pc' = "by_user"
    /\ UNCHANGED <<db, writes, queryset, request, user, outcome, response, served>>

FilterByUser ==
    /\ pc = "by_user"
    /\ IF by_user(request)
       THEN IF user.is_authenticated
            THEN /\ qs' = filter_member(qs, user.id)
                 /\ trace' = trace \o <<"by_user_auth", "filter_member">>
                 /\ pc' = "annotate"
                 /\ UNCHANGED <<outcome, response>>
            ELSE /\ Raise(AuthenticationFailed)
                 /\ trace' = Append(trace, "by_user_auth")
                 /\ UNCHANGED qs
       ELSE /\ pc' = "annotate"
            /\ UNCHANGED <<qs, trace, outcome, response>>
    /\ UNCHANGED <<db, writes, queryset, request, user, served>>

Annotate ==
    /\ pc = "annotate"
    /\ IF with_num_members(request)
       THEN /\ qs' = annotate_num_members(qs)
            /\ trace' = Append(trace, "annotate")
       ELSE UNCHANGED <<qs, trace>>
    /\ pc' = "by_serverid"
    /\ UNCHANGED <<db, writes, queryset, request, user, outcome, response, served>>

\* filter_by_server_id without its authentication check.
filter_by_server_id_no_auth(q, by_serverid, u, table) ==
    IF ~int(by_serverid).ok
    THEN [error |-> ServerIdNotInteger, queryset |-> q,
          calls |-> <<"by_serverid_int">>]
    ELSE LET f == filter_id(q, int(by_serverid).value)
         IN  IF ~exists(f, table)
             THEN [error |-> ServerNotFound(by_serverid), queryset |-> f,
                   calls |-> <<"by_serverid_int", "filter_id", "exists">>]
             ELSE [error |-> Pending, queryset |-> f,
                   calls |-> <<"by_serverid_int", "filter_id", "exists">>]

\* filter_by_server_id that coerces the id before it checks the caller.
filter_by_server_id_coerce_first(q, by_serverid, u, table) ==
    IF ~int(by_serverid).ok
    THEN [error |-> ServerIdNotInteger, queryset |-> q,
          calls |-> <<"by_serverid_int">>]
    ELSE IF ~u.is_authenticated
    THEN [error |-> AuthenticationFailed, queryset |-> q,
          calls |-> <<"by_serverid_int", "by_serverid_auth">>]
    ELSE LET f == filter_id(q, int(by_serverid).value)
         IN  IF ~exists(f, table)
             THEN [error |-> ServerNotFound(by_serverid), queryset |-> f,
                   calls |-> <<"by_serverid_int", "by_serverid_auth",
                               "filter_id", "exists">>]
             ELSE [error |-> Pending, queryset |-> f,
                   calls |-> <<"by_serverid_int", "by_serverid_auth",
                               "filter_id", "exists">>]

\* filter_by_server_id: what it does to the queryset q, as
\* [error, queryset, calls].
filter_by_server_id(q, by_serverid, u, table) ==
    IF ~u.is_authenticated
    THEN [error |-> AuthenticationFailed, queryset |-> q,
          calls |-> <<"by_serverid_auth">>]
    ELSE IF ~int(by_serverid).ok
    THEN [error |-> ServerIdNotInteger, queryset |-> q,
          calls |-> <<"by_serverid_auth", "by_serverid_int">>]
    ELSE LET f == filter_id(q, int(by_serverid).value)
         IN  IF ~exists(f, table)
             THEN [error |-> ServerNotFound(by_serverid), queryset |-> f,
                   calls |-> <<"by_serverid_auth", "by_serverid_int",
                               "filter_id", "exists">>]
             ELSE [error |-> Pending, queryset |-> f,
                   calls |-> <<"by_serverid_auth", "by_serverid_int",
                               "filter_id", "exists">>]

FilterByServerId ==
    /\ pc = "by_serverid"
    /\ IF Truthy(request.by_serverid)
       THEN LET r == filter_by_server_id(qs, request.by_serverid.raw, user, db)
            IN  /\ trace' = trace \o r.calls
                /\ IF r.error = Pending
                   THEN /\ qs' = r.queryset
                        /\ pc' = "qty"
                        /\ UNCHANGED <<outcome, response>>
                   ELSE /\ Raise(r.error)
                        /\ UNCHANGED qs
       ELSE /\ pc' = "qty"
            /\ UNCHANGED <<qs, trace, outcome, response>>
    /\ UNCHANGED <<db, writes, queryset, request, user, served>>

\* limit_results: int(qty) raises ValueError for a non-integer, and slicing a
\* queryset raises ValueError ("Negative indexing is not supported.") for a
\* negative stop; the except clause turns both into the same ValidationError.
limit_results(q, qty) ==
    IF ~int(qty).ok
    THEN [error |-> QtyNotInteger, queryset |-> q, calls |-> <<"qty_int">>]
    ELSE IF int(qty).value < 0
    THEN [error |-> QtyNotInteger, queryset |-> q,
          calls |-> <<"qty_int", "slice">>]
    ELSE [error |-> Pending, queryset |-> slice(q, int(qty).value),
          calls |-> <<"qty_int", "slice">>]

LimitResults ==
    /\ pc = "qty"
    /\ IF Truthy(request.qty)
       THEN LET r == limit_results(qs, request.qty.raw)
            IN  /\ trace' = trace \o r.calls
                /\ IF r.error = Pending
                   THEN /\ qs' = r.queryset
                        /\ outcome' = Returned
                        /\ pc' = "paginate"
                        /\ UNCHANGED response
                   ELSE /\ Raise(r.error)
                        /\ UNCHANGED qs
       ELSE /\ outcome' = Returned
            /\ pc' = "paginate"
            /\ UNCHANGED <<qs, trace, response>>
    /\ UNCHANGED <<db, writes, queryset, request, user, served>>

\* list, after get_filtered_queryset returned: viewsets.ViewSet is an APIView
\* and has no paginate_queryset (GenericAPIView defines it), so the call
\* raises AttributeError before anything is paginated or serialized.
Paginate ==
    /\ pc = "paginate"
    /\ response' = AttributeError
    /\ trace' = Append(trace, "paginate_queryset")
    /\ pc' = "responded"
    /\ UNCHANGED <<db, writes, queryset, request, user, qs, outcome, served>>

\* The response is sent and the request-scoped values are dropped; the next
\* request may be handled.
Respond ==
    /\ pc = "responded"
    /\ pc' = "idle"
    /\ request' = NoParams
    /\ user' = AnonymousUser
    /\ qs' = Server_objects_all
    /\ trace' = <<>>
    /\ outcome' = Pending
    /\ response' = Pending
    /\ served' = TRUE
    /\ UNCHANGED <<db, writes, queryset>>

\* The admin site (ServerAdmin) adds a server.
AdminAddServer ==
    /\ pc = "idle"
    /\ writes < MaxWrites
    /\ \E c \in CategoryNames :
         db' = Append(db, [id |-> Len(db) + 1, category |-> c, member |-> {}])
    /\ writes' = writes + 1
    /\ UNCHANGED <<queryset, pc, request, user, qs, trace, outcome, response, served>>

\* The admin site (ServerAdmin) changes the members of a server.
AdminChangeMembers ==
    /\ pc = "idle"
    /\ writes < MaxWrites
    /\ \E i \in 1..Len(db), u \in Users :
         db' = [db EXCEPT ![i].member =
                   IF u \in @ THEN @ \ {u} ELSE @ \cup {u}]
    /\ writes' = writes + 1
    /\ UNCHANGED <<queryset, pc, request, user, qs, trace, outcome, response, served>>

Next ==
    \/ list
    \/ FilterCategory
    \/ FilterByUser
    \/ Annotate
    \/ FilterByServerId
    \/ LimitResults
    \/ Paginate
    \/ Respond
    \/ AdminAddServer
    \/ AdminChangeMembers

Spec == Init /\ [][Next]_vars

\* -------------------------------------------------------------- properties

page_size == 10

Events == {trace[i] : i \in 1..Len(trace)}
Last(seq) == seq[Len(seq)]

\* sub occurs in seq as a run of consecutive elements.
Contains(seq, sub) ==
    \E i \in 1..(Len(seq) - Len(sub) + 1) :
        SubSeq(seq, i, i + Len(sub) - 1) = sub

\* get_filtered_queryset has ended, by returning or by raising.
Ended == outcome # Pending
Raised == outcome \notin {Pending, Returned}

\* The parameter is present and non-empty.
Supplied(p) == p.given /\ p.raw # <<>>

\* The string is an optionally signed run of decimal digits.
Coercible(s) ==
    LET body == IF s # <<>> /\ s[1] \in {"+", "-"} THEN Tail(s) ELSE s
    IN  body # <<>> /\ \A i \in 1..Len(body) : IsDigit(body[i])

\* The members of the server with the given id.
MembersOf(n, table) ==
    UNION {table[i].member : i \in {j \in 1..Len(table) : table[j].id = n}}

\* The collection narrowed by the category and by_user steps of request r has
\* a record with id n.
NarrowedHas(r, u, table, n) ==
    \E i \in 1..Len(table) :
        /\ table[i].id = n
        /\ Supplied(r.category) => table[i].category = r.category.raw
        /\ r.by_user = Given(S_true) => u.id \in table[i].member

\* The earliest failing check of a request, in the order by_user
\* authentication, by_serverid authentication, by_serverid coercion,
\* by_serverid existence, qty coercion.
FirstFailure(r, u, table) ==
    IF r.by_user = Given(S_true) /\ ~u.is_authenticated THEN "by_user_auth"
    ELSE IF Supplied(r.by_serverid) /\ ~u.is_authenticated
    THEN "by_serverid_auth"
    ELSE IF Supplied(r.by_serverid) /\ ~Coercible(r.by_serverid.raw)
    THEN "by_serverid_int"
    ELSE IF Supplied(r.by_serverid)
            /\ ~NarrowedHas(r, u, table, int(r.by_serverid.raw).value)
    THEN "exists"
    ELSE IF Supplied(r.qty) /\ ~Coercible(r.qty.raw) THEN "qty_int"
    ELSE "none"

ErrorOf(check, r) ==
    CASE check \in {"by_user_auth", "by_serverid_auth"} ->
           [kind |-> "AuthenticationFailed", detail |-> <<>>]
      [] check = "by_serverid_int" ->
           [kind |-> "ValidationError",
            detail |-> <<"Server id must be an integer">>]
      [] check = "exists" ->
           [kind |-> "ValidationError",
            detail |-> <<"Server with id-">> \o r.by_serverid.raw
                           \o <<" not found">>]
      [] check = "qty_int" ->
           [kind |-> "ValidationError", detail |-> <<"qty must be an integer">>]

\* C1: whenever the caller is not authenticated and by_user is "true" or
\* by_serverid is present and non-empty, get_filtered_queryset ends with
\* AuthenticationFailed and never returns a collection, whatever the other
\* parameters are.
C1_AuthenticationGating ==
    (/\ Ended
     /\ ~user.is_authenticated
     /\ request.by_user = Given(S_true) \/ Supplied(request.by_serverid))
    => outcome.kind = "AuthenticationFailed"

C1_Witness ==
    /\ outcome.kind = "AuthenticationFailed"
    /\ ~user.is_authenticated
    /\ request.by_user # Given(S_true)
    /\ request.by_serverid = Given(S_abc)
    /\ request.qty = Given(S_abc)

\* C2 as stated: every request whose by_serverid cannot be coerced to an
\* integer ends with the ValidationError "Server id must be an integer".
C2_Original ==
    (/\ Ended
     /\ Supplied(request.by_serverid)
     /\ ~Coercible(request.by_serverid.raw))
    => outcome = [kind |-> "ValidationError",
                  detail |-> <<"Server id must be an integer">>]

\* C2 as amended: every request of an authenticated caller whose by_serverid
\* cannot be coerced to an integer ends with the ValidationError
\* "Server id must be an integer".
C2_NonIntegerServerId ==
    (/\ Ended
     /\ user.is_authenticated
     /\ Supplied(request.by_serverid)
     /\ ~Coercible(request.by_serverid.raw))
    => outcome = [kind |-> "ValidationError",
                  detail |-> <<"Server id must be an integer">>]

C2_Witness ==
    /\ outcome.kind = "ValidationError"
    /\ user.is_authenticated
    /\ request.by_serverid = Given(S_abc)
    /\ request.by_user = Given(S_true)

\* C3 as stated: the three failure causes are reported with three error
\* kinds: a request that fails because its integer by_serverid matches no
\* record ends with an error whose message contains the id and whose kind is
\* neither the kind raised for a non-integer by_serverid or qty nor the kind
\* raised for a missing authentication.
C3_Original ==
    (Ended /\ FirstFailure(request, user, db) = "exists")
    => /\ Raised
       /\ Contains(outcome.detail, request.by_serverid.raw)
       /\ outcome.kind \notin {ServerIdNotInteger.kind, QtyNotInteger.kind,
                               AuthenticationFailed.kind}

\* C3 as amended: for an authenticated caller a by_serverid that is an
\* integer matching no record of the narrowed collection ends with a
\* ValidationError whose message contains the id; that is the kind raised for
\* a non-integer by_serverid or qty too, from which it differs by its message
\* only; every failed authentication check ends with AuthenticationFailed,
\* which is another kind.
C3_ErrorKinds ==
    /\ (/\ Ended
        /\ user.is_authenticated
        /\ Supplied(request.by_serverid)
        /\ Coercible(request.by_serverid.raw)
        /\ ~NarrowedHas(request, user, db, int(request.by_serverid.raw).value))
       => /\ outcome.kind = "ValidationError"
          /\ Contains(outcome.detail, request.by_serverid.raw)
          /\ outcome.detail \notin {<<"Server id must be an integer">>,
                                    <<"qty must be an integer">>}
    /\ (Ended /\ FirstFailure(request, user, db)
                    \in {"by_user_auth", "by_serverid_auth"})
       => outcome.kind = "AuthenticationFailed"
    /\ (Ended /\ FirstFailure(request, user, db) \in {"by_serverid_int", "qty_int"})
       => outcome.kind = "ValidationError"

C3_Witness ==
    /\ outcome.kind = "ValidationError"
    /\ request.by_serverid = Given(S_99)
    /\ Contains(outcome.detail, S_99)
    /\ request.qty = Given(S_abc)

\* C4 as stated: whenever the quantity step runs with a qty that coerces to
\* an integer k, it raises nothing and yields the first min(k, n) records of
\* the collection it received when k is positive, and no record when k is
\* zero or negative.
C4_Original ==
    (/\ Ended
     /\ "qty_int" \in Events
     /\ Coercible(request.qty.raw))
    => /\ outcome = Returned
       /\ LET k == int(request.qty.raw).value
              received == Rows([qs EXCEPT !.stop = {}], db)
          IN  Rows(qs, db) = IF k > 0 THEN Take(received, k) ELSE <<>>

\* C5 as stated: with with_num_members "true", every record of the result
\* carries num_members equal to the number of members of that record, whether
\* or not category or by_user narrowed the collection.
C5_Original ==
    (outcome = Returned /\ request.with_num_members = Given(S_true))
    => LET rows == Rows(qs, db)
       IN  \A i \in 1..Len(rows) :
               rows[i].num_members = Cardinality(MembersOf(rows[i].id, db))

\* C6: for a request with category X, with_num_members "true" and qty k (a
\* natural number) and no other filter, the result is the first k records, in
\* table order, of the records whose category name is exactly X, each with
\* its num_members: the truncation applies to the narrowed collection.
C6_FilterOrder ==
    (/\ Ended
     /\ Supplied(request.category)
     /\ request.with_num_members = Given(S_true)
     /\ Supplied(request.qty)
     /\ Coercible(request.qty.raw)
     /\ int(request.qty.raw).value >= 0
     /\ request.by_user # Given(S_true)
     /\ ~Supplied(request.by_serverid))
    => /\ outcome = Returned
       /\ LET inX == SelectSeq(db, LAMBDA s : s.category = request.category.raw)
              annotated == [i \in 1..Len(inX) |->
                               [id |-> inX[i].id, category |-> inX[i].category,
                                num_members |-> Cardinality(inX[i].member)]]
          IN  Rows(qs, db) = Take(annotated, int(request.qty.raw).value)

C6_Witness ==
    /\ outcome = Returned
    /\ request.category = Given(S_X)
    /\ request.with_num_members = Given(S_true)
    /\ request.qty = Given(S_one)
    /\ request.by_user # Given(S_true)
    /\ ~Supplied(request.by_serverid)
    /\ Len(Rows(qs, db)) = 1
    /\ Rows(qs, db)[1].id # db[1].id

\* C7 as stated: a request without filter parameters, of an authenticated or
\* an anonymous caller, is answered with the first page_size records of the
\* whole collection, in table order.
C7_Original ==
    (pc = "responded" /\ request = NoParams)
    => /\ response.kind = "Response"
       /\ response.detail = Take(Rows(Server_objects_all, db), page_size)

\* C8: the by_user step checks the caller and filters by membership exactly
\* when the raw by_user is "true", and the annotation step adds num_members
\* exactly when the raw with_num_members is "true"; for "True", "1", the
\* empty string or an absent parameter neither happens.
C8_ExactlyTrue ==
    /\ ("by_user_auth" \in Events \/ qs.member # {})
       => request.by_user = Given(S_true)
    /\ (pc \in {"annotate", "by_serverid", "qty", "paginate"}
        /\ request.by_user = Given(S_true))
       => "by_user_auth" \in Events /\ qs.member = {user.id}
    /\ ("annotate" \in Events \/ qs.annotated)
       => request.with_num_members = Given(S_true)
    /\ (outcome = Returned /\ request.with_num_members = Given(S_true))
       => "annotate" \in Events /\ qs.annotated

C8_Witness ==
    /\ outcome = Returned
    /\ ~user.is_authenticated
    /\ request.by_user = Given(S_True)
    /\ request.with_num_members = Given(S_one)
    /\ ~qs.annotated

\* C9: a request that meets one or several failure conditions ends with the
\* error of the earliest failing check, in the order by_user authentication,
\* by_serverid authentication, by_serverid coercion, by_serverid existence,
\* qty coercion, and that check is the last thing evaluated.
C9_ErrorPrecedence ==
    (Ended /\ FirstFailure(request, user, db) # "none")
    => /\ outcome = ErrorOf(FirstFailure(request, user, db), request)
       /\ response = outcome
       /\ Last(trace) = FirstFailure(request, user, db)

C9_Witness ==
    /\ outcome = ServerIdNotInteger
    /\ user.is_authenticated
    /\ request.by_serverid = Given(S_abc)
    /\ request.qty = Given(S_abc)
    /\ "qty_int" \notin Events

\* What a request yields as a function of its parameters, its caller and the
\* table alone.
QueryOf(r, u) ==
    [category__name |-> IF Supplied(r.category) THEN {r.category.raw} ELSE {},
     member |-> IF r.by_user = Given(S_true) THEN {u.id} ELSE {},
     annotated |-> r.with_num_members = Given(S_true),
     id |-> IF Supplied(r.by_serverid)
            THEN {int(r.by_serverid.raw).value} ELSE {},
     stop |-> IF Supplied(r.qty) THEN {int(r.qty.raw).value} ELSE {}]

OutcomeOf(r, u, table) ==
    IF FirstFailure(r, u, table) # "none"
    THEN ErrorOf(FirstFailure(r, u, table), r)
    ELSE IF Supplied(r.qty) /\ int(r.qty.raw).value < 0
    THEN ErrorOf("qty_int", r)
    ELSE Returned

\* C10: the class attribute queryset never changes, and how a request ends
\* (the error, or the records of the collection returned, and the response)
\* is a function of its own parameters, its caller and the current table,
\* whatever was handled before.
C10_Stateless ==
    /\ queryset = Server_objects_all
    /\ Ended =>
         /\ outcome = OutcomeOf(request, user, db)
         /\ outcome = Returned =>
              Rows(qs, db) = Rows(QueryOf(request, user), db)
    /\ pc = "responded" =>
         response = IF outcome = Returned THEN AttributeError ELSE outcome

C10_Witness ==
    /\ served
    /\ writes > 0
    /\ outcome = Returned
    /\ Supplied(request.category)
    /\ Rows(qs, db) # Rows(qs, InitialServers)

====
